---- MODULE Spec2Model ----
(***************************************************************************)
(* Model of src/crawler.py: the single-domain crawler (class Crawler) and  *)
(* the URL helpers it relies on.  URLs are sequences of one-character      *)
(* strings so that rstrip('/'), urldefrag and urlparse(...).netloc are     *)
(* computed character by character, as the Python code computes them.      *)
(***************************************************************************)
EXTENDS Integers, Sequences, FiniteSets, TLC

VARIABLES
    base,        \* self.base
    max_pages,   \* self.max_pages
    visited,     \* self.visited : set of URLs
    queue,       \* self.queue   : list of URLs
    pages,       \* self.pages   : dict URL -> body text
    forms,       \* self.forms   : dict URL -> list of form descriptors
    pc,          \* position of crawl(): "loop" (at the while test), "done"
                 \* (returned) or "raised" (left by an exception)
    fetchLog,    \* the URLs passed to session.get, in call order
    errors,      \* URL -> name of the except branch that ran for it
    extracted,   \* normalized links seen by the for-loop of lines 92-96
    delays,      \* number of time.sleep(self.delay) calls made
    appended,    \* the URLs put into self.queue, in the order of the calls
    u,           \* input string of the URL-helper harness
    nu,          \* normalize(u) as computed by the harness
    nnu,         \* normalize(normalize(u)) as computed by the harness
    npc,         \* position of the URL-helper harness
    dbase,       \* parts of the base_url argument of the is_same_domain harness
    durl,        \* parts of the url argument of the is_same_domain harness
    dres,        \* what is_same_domain returned in the harness
    dpc,         \* position of the is_same_domain harness
    vvisited,    \* visited of the variant crawl that marks skipped URLs
    vqueue,      \* queue of the variant crawl
    vpages,      \* pages of the variant crawl
    vforms,      \* forms of the variant crawl
    vpc,         \* position of the variant crawl ("idle" when it is not run)
    vfetchLog    \* the URLs the variant crawl passed to session.get

vars == <<base, max_pages, visited, queue, pages, forms, pc, fetchLog,
          errors, extracted, delays, appended, u, nu, nnu, npc,
          dbase, durl, dres, dpc,
          vvisited, vqueue, vpages, vforms, vpc, vfetchLog>>

crawlVars == <<base, max_pages, visited, queue, pages, forms, pc, fetchLog,
               errors, extracted, delays, appended>>

normVars == <<u, nu, nnu, npc>>

domVars == <<dbase, durl, dres, dpc>>

cmpVars == <<vvisited, vqueue, vpages, vforms, vpc, vfetchLog>>

(***************************************************************************)
(* Bounds of the model.                                                    *)
(***************************************************************************)
MaxPages == 3    \* largest max_pages tried
MaxLinks == 2    \* most links on one page
MaxLen == 4      \* longest string given to the URL helpers

(***************************************************************************)
(* Strings.                                                                *)
(***************************************************************************)
Range(s) == {s[i] : i \in 1..Len(s)}

Min(S) == CHOOSE x \in S : \A y \in S : x <= y

\* str.find restricted to a set of characters: least index >= lo, 0 if none
FindAny(s, C, lo) ==
    LET I == {i \in lo..Len(s) : s[i] \in C}
    IN  IF I = {} THEN 0 ELSE Min(I)

Before(s, i) == SubSeq(s, 1, i - 1)

After(s, i) == SubSeq(s, i + 1, Len(s))

\* a strip that removes one trailing '/' only
rstrip_once(s) ==
    IF s # <<>> /\ s[Len(s)] = "/" THEN SubSeq(s, 1, Len(s) - 1) ELSE s

\* str.rstrip('/')
RECURSIVE rstrip(_)
rstrip(s) ==
    IF s # <<>> /\ s[Len(s)] = "/" THEN rstrip(SubSeq(s, 1, Len(s) - 1)) ELSE s

(***************************************************************************)
(* urllib.parse as used by the crawler.                                    *)
(***************************************************************************)
scheme_chars == {"h", "t", "p", "a", "b", "c", "o", "f"}

uses_netloc == {<<"h", "t", "t", "p">>}

\* the only element of a one-element set
Only(S) == CHOOSE x \in S : TRUE

\* urlsplit, scheme step: url[:i] is the scheme if all its characters are
\* scheme characters
SplitScheme(url) ==
    LET i == FindAny(url, {":"}, 1)
    IN  IF i > 1 /\ \A k \in 1..(i - 1) : url[k] \in scheme_chars
        THEN [scheme |-> Before(url, i), rest |-> After(url, i)]
        ELSE [scheme |-> <<>>, rest |-> url]

\* urlsplit, netloc step (_splitnetloc): after '//' up to the first of '/?#'
SplitNetloc(url) ==
    IF Len(url) >= 2 /\ url[1] = "/" /\ url[2] = "/"
    THEN LET d == FindAny(url, {"/", "?", "#"}, 3)
         IN  IF d = 0
             THEN [netloc |-> SubSeq(url, 3, Len(url)), rest |-> <<>>]
             ELSE [netloc |-> SubSeq(url, 3, d - 1),
                   rest |-> SubSeq(url, d, Len(url))]
    ELSE [netloc |-> <<>>, rest |-> url]

\* url.split(c, 1): the parts before and after the first c
SplitAt(url, c) ==
    LET i == FindAny(url, {c}, 1)
    IN  IF i = 0 THEN [head |-> url, tail |-> <<>>]
        ELSE [head |-> Before(url, i), tail |-> After(url, i)]

\* urlparse(url): scheme, netloc, path, query, fragment
urlparse(url) ==
    Only({ Only({ Only({ Only({
        [scheme |-> s.scheme, netloc |-> n.netloc, path |-> q.head,
         query |-> q.tail, fragment |-> f.tail]
        : q \in {SplitAt(f.head, "?")} })
        : f \in {SplitAt(n.rest, "#")} })
        : n \in {SplitNetloc(s.rest)} })
        : s \in {SplitScheme(url)} })

\* urlunparse(parts)
urlunparse(p) ==
    LET withNetloc ==
            p.netloc # <<>>
            \/ (p.scheme # <<>> /\ p.scheme \in uses_netloc
                /\ ~(Len(p.path) >= 2 /\ p.path[1] = "/" /\ p.path[2] = "/"))
        path1 == IF withNetloc /\ p.path # <<>> /\ p.path[1] # "/"
                 THEN <<"/">> \o p.path ELSE p.path
        u1 == IF withNetloc THEN <<"/", "/">> \o p.netloc \o path1 ELSE p.path
        u2 == IF p.scheme # <<>> THEN p.scheme \o <<":">> \o u1 ELSE u1
        u3 == IF p.query # <<>> THEN u2 \o <<"?">> \o p.query ELSE u2
    IN  IF p.fragment # <<>> THEN u3 \o <<"#">> \o p.fragment ELSE u3

\* urldefrag(url)[0]
urldefrag(url) ==
    IF "#" \in Range(url)
    THEN Only({urlunparse([p EXCEPT !.fragment = <<>>]) : p \in {urlparse(url)}})
    ELSE url

\* the normalization of line 93: urldefrag(l)[0].rstrip('/')
normalize(l) == rstrip(urldefrag(l))

\* urlparse raises ValueError("Invalid IPv6 URL"): one bracket of a pair in
\* the netloc
InvalidIPv6(url) ==
    Only({ ("[" \in Range(n)) # ("]" \in Range(n)) :
           n \in { SplitNetloc(r).netloc : r \in {SplitScheme(url).rest} } })

\* a comparison that also wants the schemes to be equal
is_same_domain_scheme(base_url, url) ==
    IF InvalidIPv6(base_url) \/ InvalidIPv6(url) THEN FALSE
    ELSE /\ urlparse(base_url).netloc = urlparse(url).netloc
         /\ urlparse(base_url).scheme = urlparse(url).scheme

\* lines 15-20: the netlocs are equal; False if urlparse raises ValueError
is_same_domain(base_url, url) ==
    IF InvalidIPv6(base_url) \/ InvalidIPv6(url) THEN FALSE
    ELSE urlparse(base_url).netloc = urlparse(url).netloc

(***************************************************************************)
(* The web the crawler runs against.                                       *)
(***************************************************************************)
Http == <<"h", "t", "t", "p", ":", "/", "/">>

Seed == Http \o <<"h">>

\* base_url arguments of Crawler(...)
BaseUrls == {Seed, Seed \o <<"/">>, Seed \o <<"/", "#", "f">>}

\* absolute URLs that extract_links can return (outputs of urljoin)
LinkUrls ==
    { Seed \o <<"/", "a", "/">>,
      Seed \o <<"/", "#", "f">>,
      Seed \o <<"/", "b">>,
      Http \o <<"o", "/", "c", "/">> }

\* the parts a URL is written from: scheme://[userinfo@]host[:port]path[?query]
UrlParts ==
    [scheme : {<<"h", "t", "t", "p">>, <<"f", "t", "p">>},
     userinfo : {<<>>, <<"a">>},
     host : {<<"h">>, <<"o">>, <<"[", "h">>},
     port : {<<>>, <<"8">>},
     path : {<<>>, <<"/", "a">>},
     query : {<<>>, <<"b">>}]

NoParts ==
    [scheme |-> <<>>, userinfo |-> <<>>, host |-> <<>>, port |-> <<>>,
     path |-> <<>>, query |-> <<>>]

\* the URL string written from its parts
UrlOf(c) ==
    c.scheme \o <<":", "/", "/">>
    \o (IF c.userinfo = <<>> THEN <<>> ELSE c.userinfo \o <<"@">>)
    \o c.host
    \o (IF c.port = <<>> THEN <<>> ELSE <<":">> \o c.port)
    \o c.path
    \o (IF c.query = <<>> THEN <<>> ELSE <<"?">> \o c.query)

\* r.text of the response to the n-th call of session.get: what the server
\* sends is not interpreted by the crawl loop, so each response text is
\* tagged with the call that produced it
Body(url, n) == [url |-> url, fetch |-> n]

\* what extract_forms(r.text, url) can return: no form, or one form
\* without method and action attributes
FormLists(url) ==
    { <<>>, <<[method |-> "get", action |-> url, inputs |-> <<>>]>> }

\* what extract_links(r.text, url) can return: list(set(...)), any order
LinkLists ==
    {l \in UNION {[1..n -> LinkUrls] : n \in 0..MaxLinks} :
        \A i, j \in 1..Len(l) : i # j => l[i] # l[j]}

\* how one pass through the try block of lines 77-96 can end
Outcomes ==
    { "ok",                 \* no exception
      "RequestException",   \* session.get or raise_for_status raised it
      "Exception_get",      \* session.get raised another exception
      "Exception_forms",    \* extract_forms raised, after line 82
      "Exception_links" }   \* extract_links raised, after lines 82-87

\* the strings self.queue can hold: the stripped base and the normalized links
QueueUrls == {rstrip(b) : b \in BaseUrls} \cup {normalize(l) : l \in LinkUrls}

\* line 93, urldefrag(l)[0].rstrip('/'), for each link the web can return;
\* the table is computed once from normalize
Normalized == [l \in LinkUrls |-> normalize(l)]

\* line 73's is_same_domain(self.base, url) for each base and each queued
\* URL; the table is computed once from is_same_domain
SameDomain == [b \in QueueUrls, x \in QueueUrls |-> is_same_domain(b, x)]

(***************************************************************************)
(* Crawler.                                                                *)
(***************************************************************************)
Keys(d) == DOMAIN d

Put(d, k, v) == [x \in DOMAIN d \cup {k} |-> IF x = k THEN v ELSE d[x]]

EmptyDict == [x \in {} |-> x]

\* Crawler.__init__
Init ==
    /\ \E base_url \in BaseUrls : base = rstrip(base_url)
    /\ max_pages \in 0..MaxPages
    /\ visited = {}
    /\ queue = <<base>>
    /\ pages = EmptyDict
    /\ forms = EmptyDict
    /\ pc = "loop"
    /\ fetchLog = <<>>
    /\ errors = EmptyDict
    /\ extracted = {}
    /\ delays = 0
    /\ appended = <<base>>
    /\ u = <<>>
    /\ nu = <<>>
    /\ nnu = <<>>
    /\ npc = "idle"
    /\ dbase = NoParts
    /\ durl = NoParts
    /\ dres = FALSE
    /\ dpc = "idle"
    /\ vvisited = {}
    /\ vqueue = <<>>
    /\ vpages = EmptyDict
    /\ vforms = EmptyDict
    /\ vpc = "idle"
    /\ vfetchLog = <<>>

\* the while test of line 68, without the budget test
LoopCondNoBudget(q, v, m) == q # <<>>

\* the while test of line 68, with <= for <
LoopCondOffByOne(q, v, m) == q # <<>> /\ Cardinality(v) <= m

\* line 68: while self.queue and len(self.visited) < self.max_pages
LoopCond(q, v, m) == q # <<>> /\ Cardinality(v) < m

\* the skip test of line 73, without the domain test
ShouldSkipNoDomain(url, v, b) == url \in v

\* the skip test of line 73, without the visited test
ShouldSkipNoVisited(url, v, b) == ~SameDomain[b, url]

\* line 73: url in self.visited or not is_same_domain(self.base, url)
ShouldSkip(url, v, b) == url \in v \/ ~SameDomain[b, url]

\* an enqueue loop that drops every link but the first
RECURSIVE EnqueueFirstOnly(_, _, _)
EnqueueFirstOnly(q, links, v) ==
    IF links = <<>> THEN q
    ELSE LET l == Normalized[Head(links)]
         IN  IF l # <<>> /\ l \notin v /\ l \notin Range(q)
             THEN Append(q, l) ELSE q

\* an enqueue loop without the visited test of line 94
RECURSIVE EnqueueNoVisited(_, _, _)
EnqueueNoVisited(q, links, v) ==
    IF links = <<>> THEN q
    ELSE LET l == Normalized[Head(links)]
         IN  IF l # <<>> /\ l \notin Range(q)
             THEN EnqueueNoVisited(Append(q, l), Tail(links), v)
             ELSE EnqueueNoVisited(q, Tail(links), v)

\* an enqueue loop without the queue test of line 94
RECURSIVE EnqueueNoQueueTest(_, _, _)
EnqueueNoQueueTest(q, links, v) ==
    IF links = <<>> THEN q
    ELSE LET l == Normalized[Head(links)]
         IN  IF l # <<>> /\ l \notin v
             THEN EnqueueNoQueueTest(Append(q, l), Tail(links), v)
             ELSE EnqueueNoQueueTest(q, Tail(links), v)

\* an enqueue loop that inserts at the head of the list: queue.insert(0, l)
RECURSIVE EnqueueLifo(_, _, _)
EnqueueLifo(q, links, v) ==
    IF links = <<>> THEN q
    ELSE LET l == Normalized[Head(links)]
         IN  IF l # <<>> /\ l \notin v /\ l \notin Range(q)
             THEN EnqueueLifo(<<l>> \o q, Tail(links), v)
             ELSE EnqueueLifo(q, Tail(links), v)

\* lines 92-96: for l in links: normalize, append if new
RECURSIVE Enqueue(_, _, _)
Enqueue(q, links, v) ==
    IF links = <<>> THEN q
    ELSE LET l == Normalized[Head(links)]
         IN  IF l # <<>> /\ l \notin v /\ l \notin Range(q)
             THEN Enqueue(Append(q, l), Tail(links), v)
             ELSE Enqueue(q, Tail(links), v)

\* a try block that stores the page whatever the outcome
StoredAlways(o) == TRUE

\* line 82 is reached: the response passed raise_for_status
Stored(o) == o \in {"ok", "Exception_forms", "Exception_links"}

\* lines 85-87 are completed
FormsDone(o) == o \in {"ok", "Exception_links"}

\* lines 90-96 are completed
LinksDone(o) == o = "ok"

\* a skip that also marks the discarded URL as visited
VisitedAfterSkipMarked(v, url) == v \cup {url}

\* lines 73-75: continue leaves self.visited as it is
VisitedAfterSkip(v, url) == v

\* an if of line 86 that stores the list even when it is empty
HasFormsAlways(fs) == TRUE

\* line 86: if forms
HasForms(fs) == fs # <<>>

\* a sleep placed in the try block: no pause after a failure
AfterSleepOnSuccess(d, o) == IF o = "ok" THEN d + 1 ELSE d

\* line 107, in the finally block: time.sleep(self.delay), whatever happened
AfterSleep(d, o) == d + 1

\* lines 92-95: the arguments of the queue.append calls of one page's
\* for-loop, in call order; held is the set of URLs in the list so far
RECURSIVE AppendCalls(_, _, _)
AppendCalls(held, links, v) ==
    IF links = <<>> THEN <<>>
    ELSE LET l == Normalized[Head(links)]
         IN  IF l # <<>> /\ l \notin v /\ l \notin held
             THEN <<l>> \o AppendCalls(held \cup {l}, Tail(links), v)
             ELSE AppendCalls(held, Tail(links), v)

\* line 105: self.visited.add(url)
MarkVisited(v, url) == v \cup {url}

\* the class of the exception raised in the try block
Raised(o) ==
    IF o = "RequestException" THEN "RequestException" ELSE "Exception"

\* a try statement with the first except clause only
CaughtRequestOnly(exc) == exc = "RequestException"

\* lines 98, 101: except RequestException, except Exception
Caught(exc) == exc \in {"RequestException", "Exception"}

\* lines 69-75: an iteration that pops a URL and discards it
Skip ==
    /\ pc = "loop"
    /\ LoopCond(queue, visited, max_pages)
    /\ LET url == rstrip(Head(queue))
       IN  /\ ShouldSkip(url, visited, base)
           /\ queue' = Tail(queue)
           /\ visited' = VisitedAfterSkip(visited, url)
    /\ UNCHANGED <<base, max_pages, pages, forms, pc, fetchLog,
                   errors, extracted, delays, appended>>
    /\ UNCHANGED normVars
    /\ UNCHANGED domVars
    /\ UNCHANGED cmpVars

\* what extract_forms can give for outcome o: nothing if it is not reached
FormsFor(url, o) == IF FormsDone(o) THEN FormLists(url) ELSE {<<>>}

\* what extract_links can give for outcome o: nothing if it is not reached
LinksFor(o) == IF LinksDone(o) THEN LinkLists ELSE {<<>>}

\* line 82: self.pages[url] = r.text, with the text of the n-th response
PagesAfter(p, url, o, n) ==
    IF Stored(o) THEN Put(p, url, Body(url, n)) ELSE p

\* lines 85-87: forms = extract_forms(...); if forms: self.forms[url] = forms
FormsAfter(f, url, o, fs) ==
    IF FormsDone(o) /\ HasForms(fs) THEN Put(f, url, fs) ELSE f

\* line 69 and lines 90-96: the head is popped, the links are enqueued
QueueAfter(q, o, links, v) ==
    IF LinksDone(o) THEN Enqueue(Tail(q), links, v) ELSE Tail(q)

\* lines 77-82 and 98-107 for the dequeued url when the try block ends as o
Fetch(url, o) ==
    /\ fetchLog' = Append(fetchLog, url)
    /\ visited' = MarkVisited(visited, url)
    /\ delays' = AfterSleep(delays, o)
    /\ errors' = IF o = "ok" THEN errors ELSE Put(errors, url, Raised(o))
    /\ pc' = IF o = "ok" \/ Caught(Raised(o)) THEN "loop" ELSE "raised"
    /\ pages' = PagesAfter(pages, url, o, Len(fetchLog) + 1)

\* lines 85-87 for the forms fs found in the page
StoreForms(url, o, fs) == forms' = FormsAfter(forms, url, o, fs)

\* lines 90-96 for the links found in the page
EnqueueLinks(o, links) ==
    /\ queue' = QueueAfter(queue, o, links, visited)
    /\ appended' = IF LinksDone(o)
                   THEN appended \o
                        AppendCalls(Range(Tail(queue)), links, visited)
                   ELSE appended
    /\ extracted' = IF LinksDone(o)
                    THEN extracted \cup
                         {Normalized[links[k]] : k \in 1..Len(links)}
                    ELSE extracted

\* lines 69-107: an iteration that pops a URL, fetches and processes it
Process ==
    /\ pc = "loop"
    /\ LoopCond(queue, visited, max_pages)
    /\ ~ShouldSkip(rstrip(Head(queue)), visited, base)
    /\ \E url \in {rstrip(Head(queue))} :
         \E o \in Outcomes :
           /\ Fetch(url, o)
           /\ \E fs \in FormsFor(url, o) : StoreForms(url, o, fs)
           /\ \E links \in LinksFor(o) : EnqueueLinks(o, links)
    /\ UNCHANGED <<base, max_pages>>
    /\ UNCHANGED normVars
    /\ UNCHANGED domVars
    /\ UNCHANGED cmpVars

\* lines 68, 109: the while test fails and crawl() returns
Return ==
    /\ pc = "loop"
    /\ ~LoopCond(queue, visited, max_pages)
    /\ pc' = "done"
    /\ UNCHANGED <<base, max_pages, visited, queue, pages, forms, fetchLog,
                   errors, extracted, delays, appended>>
    /\ UNCHANGED normVars
    /\ UNCHANGED domVars
    /\ UNCHANGED cmpVars

Next == Skip \/ Process \/ Return

Spec == Init /\ [][Next]_vars

\* crawl() is one sequential loop: it keeps running until it returns
FairSpec == Spec /\ WF_vars(Next)

TypeOK ==
    /\ pc \in {"loop", "done", "raised"}
    /\ max_pages \in 0..MaxPages
    /\ delays \in Nat
    /\ Range(appended) \subseteq QueueUrls
    /\ Range(queue) \subseteq QueueUrls
    /\ vpc \in {"idle", "loop", "done", "raised"}
    /\ Range(vqueue) \subseteq QueueUrls

(***************************************************************************)
(* The variant crawl of the specification's open question: the same loop, *)
(* except that a URL discarded at dequeue is added to visited.  It runs   *)
(* beside the crawl of the code on the same base, max_pages and web: a    *)
(* URL both crawls fetch gives both the same response.                    *)
(***************************************************************************)
\* the variant's replacement for the bare continue of line 75
VariantAfterSkip(v, url) == v \cup {url}

\* a crawl in position p with queue q and visited v is about to fetch
AtFetch(q, v, p) ==
    /\ p = "loop"
    /\ LoopCond(q, v, max_pages)
    /\ ~ShouldSkip(rstrip(Head(q)), v, base)

\* the variant has no discard or return of its own left to do
VSettled == vpc = "done" \/ AtFetch(vqueue, vvisited, vpc)

CmpInit ==
    /\ \E base_url \in BaseUrls : base = rstrip(base_url)
    /\ max_pages \in 0..MaxPages
    /\ visited = {}
    /\ queue = <<base>>
    /\ pages = EmptyDict
    /\ forms = EmptyDict
    /\ pc = "loop"
    /\ fetchLog = <<>>
    /\ errors = EmptyDict
    /\ extracted = {}
    /\ delays = 0
    /\ appended = <<base>>
    /\ u = <<>>
    /\ nu = <<>>
    /\ nnu = <<>>
    /\ npc = "idle"
    /\ dbase = NoParts
    /\ durl = NoParts
    /\ dres = FALSE
    /\ dpc = "idle"
    /\ vvisited = {}
    /\ vqueue = <<base>>
    /\ vpages = EmptyDict
    /\ vforms = EmptyDict
    /\ vpc = "loop"
    /\ vfetchLog = <<>>

\* the variant discards its dequeued URL and marks it visited
VSkip ==
    /\ vpc = "loop"
    /\ LoopCond(vqueue, vvisited, max_pages)
    /\ ShouldSkip(rstrip(Head(vqueue)), vvisited, base)
    /\ vqueue' = Tail(vqueue)
    /\ vvisited' = VariantAfterSkip(vvisited, rstrip(Head(vqueue)))
    /\ UNCHANGED <<vpages, vforms, vpc, vfetchLog>>
    /\ UNCHANGED crawlVars
    /\ UNCHANGED normVars
    /\ UNCHANGED domVars

\* the variant's loop test fails and it returns
VReturn ==
    /\ vpc = "loop"
    /\ ~LoopCond(vqueue, vvisited, max_pages)
    /\ vpc' = "done"
    /\ UNCHANGED <<vvisited, vqueue, vpages, vforms, vfetchLog>>
    /\ UNCHANGED crawlVars
    /\ UNCHANGED normVars
    /\ UNCHANGED domVars

\* the variant's iteration for url when the try block ends as o, given the
\* n-th response text; its forms and links are stored by JointFetch
VFetch(url, o, n) ==
    /\ vfetchLog' = Append(vfetchLog, url)
    /\ vvisited' = MarkVisited(vvisited, url)
    /\ vpc' = IF o = "ok" \/ Caught(Raised(o)) THEN "loop" ELSE "raised"
    /\ vpages' = PagesAfter(vpages, url, o, n)

\* both crawls are about to fetch the same URL: the web answers both alike
JointFetch ==
    /\ AtFetch(queue, visited, pc)
    /\ AtFetch(vqueue, vvisited, vpc)
    /\ rstrip(Head(queue)) = rstrip(Head(vqueue))
    /\ \E url \in {rstrip(Head(queue))} :
         \E o \in Outcomes :
           /\ Fetch(url, o)
           /\ VFetch(url, o, Len(fetchLog) + 1)
           /\ \E fs \in FormsFor(url, o) :
                /\ StoreForms(url, o, fs)
                /\ vforms' = FormsAfter(vforms, url, o, fs)
           /\ \E links \in LinksFor(o) :
                /\ EnqueueLinks(o, links)
                /\ vqueue' = QueueAfter(vqueue, o, links, vvisited)
    /\ UNCHANGED <<base, max_pages>>
    /\ UNCHANGED normVars
    /\ UNCHANGED domVars

\* the variant first does its discards and its return; the crawl of the
\* code then does its own; a fetch is joint, or the code's alone once the
\* variant has returned
CmpNext ==
    \/ VSkip
    \/ VReturn
    \/ (VSettled /\ Skip)
    \/ (VSettled /\ Return)
    \/ JointFetch
    \/ (vpc = "done" /\ Process)

CmpSpec == CmpInit /\ [][CmpNext]_vars

(***************************************************************************)
(* Harness for the URL helpers: normalize a string, then normalize the     *)
(* result again.                                                           *)
(***************************************************************************)
NormAlphabet == {"a", "/", "#", "?", ":"}

NormInputs == UNION {[1..n -> NormAlphabet] : n \in 0..MaxLen}

NormInit ==
    /\ base = Seed
    /\ max_pages = 0
    /\ visited = {}
    /\ queue = <<Seed>>
    /\ pages = EmptyDict
    /\ forms = EmptyDict
    /\ pc = "done"
    /\ fetchLog = <<>>
    /\ errors = EmptyDict
    /\ extracted = {}
    /\ delays = 0
    /\ appended = <<base>>
    /\ u \in NormInputs
    /\ nu = <<>>
    /\ nnu = <<>>
    /\ npc = "start"
    /\ dbase = NoParts
    /\ durl = NoParts
    /\ dres = FALSE
    /\ dpc = "idle"
    /\ vvisited = {}
    /\ vqueue = <<>>
    /\ vpages = EmptyDict
    /\ vforms = EmptyDict
    /\ vpc = "idle"
    /\ vfetchLog = <<>>

\* line 93 applied to a discovered link
NormalizeOnce ==
    /\ npc = "start"
    /\ nu' = normalize(u)
    /\ npc' = "once"
    /\ UNCHANGED <<u, nnu>>
    /\ UNCHANGED crawlVars
    /\ UNCHANGED domVars
    /\ UNCHANGED cmpVars

\* line 93 applied to an already normalized link
NormalizeTwice ==
    /\ npc = "once"
    /\ nnu' = normalize(nu)
    /\ npc' = "twice"
    /\ UNCHANGED <<u, nu>>
    /\ UNCHANGED crawlVars
    /\ UNCHANGED domVars
    /\ UNCHANGED cmpVars

NormNext == NormalizeOnce \/ NormalizeTwice

NormSpec == NormInit /\ [][NormNext]_vars

(***************************************************************************)
(* Harness for is_same_domain: call it on two URLs written from parts.     *)
(***************************************************************************)
DomInit ==
    /\ base = Seed
    /\ max_pages = 0
    /\ visited = {}
    /\ queue = <<Seed>>
    /\ pages = EmptyDict
    /\ forms = EmptyDict
    /\ pc = "done"
    /\ fetchLog = <<>>
    /\ errors = EmptyDict
    /\ extracted = {}
    /\ delays = 0
    /\ appended = <<base>>
    /\ u = <<>>
    /\ nu = <<>>
    /\ nnu = <<>>
    /\ npc = "idle"
    /\ dbase \in UrlParts
    /\ durl \in UrlParts
    /\ dres = FALSE
    /\ dpc = "start"
    /\ vvisited = {}
    /\ vqueue = <<>>
    /\ vpages = EmptyDict
    /\ vforms = EmptyDict
    /\ vpc = "idle"
    /\ vfetchLog = <<>>

\* lines 15-20 called on the two URLs
CallIsSameDomain ==
    /\ dpc = "start"
    /\ dres' = is_same_domain(UrlOf(dbase), UrlOf(durl))
    /\ dpc' = "returned"
    /\ UNCHANGED <<dbase, durl>>
    /\ UNCHANGED crawlVars
    /\ UNCHANGED normVars
    /\ UNCHANGED cmpVars

DomNext == CallIsSameDomain

DomSpec == DomInit /\ [][DomNext]_vars

(***************************************************************************)
(* Properties.                                                             *)
(***************************************************************************)
Last(s) == s[Len(s)]

Netlocs == [x \in QueueUrls \cup LinkUrls |-> urlparse(x).netloc]

NetlocOf(url) ==
    IF url \in DOMAIN Netlocs THEN Netlocs[url] ELSE urlparse(url).netloc

CrossDomain(url) == NetlocOf(url) # NetlocOf(base)

Occurrences(s, x) == Cardinality({i \in 1..Len(s) : s[i] = x})

\* URLs for which an except branch ran
Failed == Keys(errors)

\* URLs processed without getting a pages entry
FetchFailed == visited \ Keys(pages)

\* C1 as stated: |visited| <= max_pages in every state, and at return
\* len(pages) + (number of URLs whose fetch or processing failed) <= max_pages
C1_BudgetAsStated ==
    /\ Cardinality(visited) <= max_pages
    /\ pc = "done" =>
         Cardinality(Keys(pages)) + Cardinality(Failed) <= max_pages

\* C1 amended: |visited| <= max_pages in every state; the pages and the
\* URLs whose processing failed are all visited URLs, so together they are
\* at most max_pages distinct URLs; and len(pages) + (number of URLs
\* processed without a pages entry) <= max_pages
C1_Budget ==
    /\ Cardinality(visited) <= max_pages
    /\ Keys(pages) \cup Failed \subseteq visited
    /\ Cardinality(Keys(pages) \cup Failed) <= max_pages
    /\ Cardinality(Keys(pages)) + Cardinality(FetchFailed) <= max_pages

C1_Witness ==
    /\ pc = "done"
    /\ max_pages >= 2
    /\ Cardinality(visited) = max_pages
    /\ FetchFailed # {}
    /\ Keys(pages) \cap Failed # {}

\* C2: every URL given to session.get, and every key of pages and forms,
\* has the base URL's netloc; a cross-domain link found on a fetched page is
\* in the queue right after that page is processed, and the iteration that
\* dequeues a cross-domain URL fetches nothing and stores nothing
C2_SingleDomain ==
    /\ [](/\ \A i \in 1..Len(fetchLog) : ~CrossDomain(fetchLog[i])
          /\ \A k \in Keys(pages) \cup Keys(forms) \cup visited : ~CrossDomain(k))
    /\ [][\A l \in extracted' \ extracted :
             (CrossDomain(l) /\ l # <<>>) => l \in Range(queue')]_vars
    /\ [][(queue # <<>> /\ queue' # queue /\ CrossDomain(rstrip(Head(queue))))
             => (fetchLog' = fetchLog /\ pages' = pages /\ forms' = forms
                 /\ visited' = visited /\ queue' = Tail(queue))]_vars

C2_Witness ==
    /\ \E l \in extracted : CrossDomain(l) /\ l \notin Range(queue)
    /\ Len(fetchLog) >= 2
    /\ pc = "done"

\* C3: no URL is given to session.get twice; a URL is fetched only while it
\* is not in visited; an entry of pages, once written, keeps its value
C3_FetchedOnce ==
    /\ [](\A i, j \in 1..Len(fetchLog) : fetchLog[i] = fetchLog[j] => i = j)
    /\ [][fetchLog' # fetchLog =>
             /\ Last(fetchLog') \notin visited
             /\ Last(fetchLog') \notin Range(fetchLog)
             /\ Last(fetchLog') \notin Keys(pages)]_vars
    /\ [][\A k \in Keys(pages) : k \in Keys(pages') /\ pages'[k] = pages[k]]_vars

\* the seed linked to itself, re-entered the queue and was dropped at dequeue
C3_Witness ==
    /\ fetchLog = <<base>>
    /\ base \in Keys(pages)
    /\ base \in extracted
    /\ base \in visited
    /\ base \notin Range(queue)
    /\ Cardinality(visited) < max_pages

\* C4: a URL whose fetch raised RequestException has no entry in pages or
\* forms, is in visited and was fetched exactly once; the iteration where
\* it fails only removes the head of the queue and stays in the loop
C4_TransportFailure ==
    /\ [](\A k \in Keys(errors) :
            errors[k] = "RequestException" =>
              /\ k \notin Keys(pages)
              /\ k \notin Keys(forms)
              /\ k \in visited
              /\ Occurrences(fetchLog, k) = 1)
    /\ [][\A k \in Keys(errors') \ Keys(errors) :
            errors'[k] = "RequestException" =>
              /\ k = rstrip(Head(queue))
              /\ queue' = Tail(queue)
              /\ pc' = "loop"
              /\ pages' = pages
              /\ forms' = forms]_vars

\* a fetch failed at transport level and a later URL was fetched and stored
C4_Witness ==
    \E i, j \in 1..Len(fetchLog) :
        /\ i < j
        /\ fetchLog[i] \in Keys(errors)
        /\ errors[fetchLog[i]] = "RequestException"
        /\ fetchLog[j] \in Keys(pages)
        /\ fetchLog[i] \notin Range(queue)

\* C5: crawl() eventually returns, whatever the link graph, the budget and
\* the fetch outcomes, and no exception leaves the loop
C5_Terminates == <>(pc = "done") /\ [](pc # "raised")

C5_Witness ==
    /\ pc = "done"
    /\ \E k \in Keys(errors) : errors[k] = "RequestException"
    /\ \E k \in Keys(errors) : errors[k] = "Exception"
    /\ Keys(pages) # {}

\* C6: with max_pages = 1 and a seed whose body was fetched, crawl() returns
\* pages with the seed as its only key and has fetched nothing else
C6_OnePage ==
    (pc = "done" /\ max_pages = 1 /\ fetchLog # <<>>
       /\ fetchLog[1] \in Keys(pages))
    => (Keys(pages) = {base} /\ fetchLog = <<base>>)

C6_Witness ==
    /\ pc = "done"
    /\ max_pages = 1
    /\ Keys(pages) = {base}
    /\ Len(queue) = MaxLinks
    /\ \A i \in 1..Len(queue) : ~CrossDomain(queue[i]) /\ queue[i] \notin visited

\* C7: at return the queue is empty or |visited| >= max_pages; crawl()
\* returns as soon as that holds; and a URL is dequeued or fetched only
\* when the queue is non-empty and |visited| < max_pages
C7_ReturnsExactlyWhen ==
    /\ [](pc = "done" => (queue = <<>> \/ Cardinality(visited) >= max_pages))
    /\ [][(queue' # queue \/ fetchLog' # fetchLog \/ visited' # visited)
             => (queue # <<>> /\ Cardinality(visited) < max_pages)]_vars
    /\ [][(pc = "loop" /\ (queue = <<>> \/ Cardinality(visited) >= max_pages))
             => pc' = "done"]_vars

C7_Witness ==
    /\ pc = "done"
    /\ queue # <<>>
    /\ max_pages >= 2
    /\ Cardinality(visited) = max_pages

\* C8: if crawl() returns with |visited| < max_pages, every same-domain
\* normalized link extracted from a fetched page is in visited
C8_LinksVisited ==
    (pc = "done" /\ Cardinality(visited) < max_pages)
    => \A l \in extracted : ~CrossDomain(l) => l \in visited

C8_Witness ==
    /\ pc = "done"
    /\ Cardinality(visited) < max_pages
    /\ \E l \in extracted : ~CrossDomain(l) /\ l # base /\ l \in visited
    /\ \E l \in extracted : CrossDomain(l)

\* C9: every member of visited and every key of pages has no '#' and no
\* trailing '/'
C9_KeysNormalized ==
    \A k \in visited \cup Keys(pages) :
        /\ "#" \notin Range(k)
        /\ k # <<>> => Last(k) # "/"

\* C10: normalizing a normalized string changes nothing
C10_Idempotent == npc = "twice" => nnu = nu

C10_Witness ==
    /\ npc = "twice"
    /\ "#" \in Range(u)
    /\ Len(nu) + 2 <= Len(u)
    /\ nu # <<>>
    /\ \E i \in 1..Len(u) : u[i] = "/" /\ i > Len(nu)

\* a URL urlparse accepts: no unpaired bracket in the host
Parsable(c) == ("[" \in Range(c.host)) = ("]" \in Range(c.host))

\* C11 as stated: is_same_domain is true exactly when the hosts are equal,
\* whatever the scheme, userinfo, port, path and query
C11_HostsAsStated ==
    dpc = "returned" => (dres <=> dbase.host = durl.host)

\* C11 amended: is_same_domain is true exactly when both URLs parse and
\* their userinfo, host and port are all equal, whatever the scheme, path
\* and query; so it is false whenever the hosts differ
C11_Netloc ==
    dpc = "returned" =>
      /\ dres <=> /\ Parsable(dbase) /\ Parsable(durl)
                  /\ dbase.userinfo = durl.userinfo
                  /\ dbase.host = durl.host
                  /\ dbase.port = durl.port
      /\ dbase.host # durl.host => ~dres

C11_Witness ==
    /\ dpc = "returned"
    /\ dres
    /\ dbase.scheme # durl.scheme
    /\ dbase.path # durl.path
    /\ dbase.query # durl.query
    /\ dbase.port # <<>>
    /\ dbase.userinfo # <<>>

\* C12 as stated: a URL that is in visited and in the queue at the end of
\* one iteration is not in the queue at the end of the next iteration
C12_OneIterationAsStated ==
    [][pc' = "loop" =>
         \A x \in visited \cap Range(queue) : x \notin Range(queue')]_vars

\* C12 amended: a URL is in visited and in the queue only if its own page
\* was fetched without error and linked to itself; it is in the queue once;
\* no URL already in visited is ever appended; and when a visited URL
\* reaches the head of the queue it is dropped without a fetch
C12_VisitedInQueue ==
    /\ [](\A x \in visited \cap Range(queue) :
            /\ x \in extracted
            /\ x \in Keys(pages)
            /\ x \notin Keys(errors)
            /\ Occurrences(queue, x) = 1)
    /\ [][(queue # <<>> /\ pc' = "loop") =>
            \A x \in Range(queue') \ Range(Tail(queue)) :
               /\ x \notin visited
               /\ x \in visited' => x = rstrip(Head(queue))]_vars
    /\ [][(queue # <<>> /\ pc' = "loop" /\ rstrip(Head(queue)) \in visited)
            => (queue' = Tail(queue) /\ fetchLog' = fetchLog
                /\ visited' = visited /\ pages' = pages)]_vars

\* the seed is still in the queue after a second page was processed
C12_Witness ==
    /\ pc = "loop"
    /\ Len(fetchLog) >= 2
    /\ fetchLog[1] \in Range(queue)
    /\ fetchLog[1] \in visited
    /\ Cardinality(visited) < max_pages

\* C13 as stated: every element of the queue is same-domain as base
C13_QueueSameDomainAsStated ==
    \A i \in 1..Len(queue) : ~CrossDomain(queue[i])

\* C13 amended: every element of the queue is the base URL or a non-empty
\* normalized link of a fetched page, whatever its domain; the same-domain
\* filter is applied at dequeue only, so a cross-domain link may sit in the
\* queue but is never fetched, stored or added to visited
C13_FilterAtDequeue ==
    /\ \A x \in Range(queue) : x # <<>> /\ (x = base \/ x \in extracted)
    /\ \A x \in Range(queue) \cup extracted :
          CrossDomain(x) =>
            /\ x \notin visited
            /\ x \notin Range(fetchLog)
            /\ x \notin Keys(pages) \cup Keys(forms)

C13_Witness ==
    /\ pc = "loop"
    /\ Len(queue) >= 2
    /\ CrossDomain(queue[1])
    /\ ~CrossDomain(queue[2])
    /\ Cardinality(visited) < max_pages

\* C14 as stated: a URL whose processing raised a non-transport exception
\* has no entry in pages or forms, is in visited, and the exception does
\* not leave the loop
C14_UnexpectedAsStated ==
    /\ pc # "raised"
    /\ \A k \in Keys(errors) :
          errors[k] = "Exception" =>
            /\ k \notin Keys(pages)
            /\ k \notin Keys(forms)
            /\ k \in visited

\* C14 amended: a non-transport exception does not leave the loop; the URL
\* is added to visited, was fetched once, and none of its links is
\* enqueued; entries of other URLs are untouched; but the URL keeps the
\* pages entry (and forms entry) written before the exception was raised
C14_Unexpected ==
    /\ [](/\ pc # "raised"
          /\ \A k \in Keys(errors) :
                errors[k] = "Exception" =>
                  /\ k \in visited
                  /\ Occurrences(fetchLog, k) = 1
                  /\ k \in Keys(forms) => k \in Keys(pages))
    /\ [][\A k \in Keys(errors') \ Keys(errors) :
            errors'[k] = "Exception" =>
              /\ k = rstrip(Head(queue))
              /\ queue' = Tail(queue)
              /\ extracted' = extracted
              /\ pc' = "loop"
              /\ visited' = visited \cup {k}
              /\ Keys(pages') \subseteq Keys(pages) \cup {k}
              /\ Keys(forms') \subseteq Keys(forms) \cup {k}
              /\ \A j \in Keys(pages) : pages'[j] = pages[j]
              /\ \A j \in Keys(forms) : forms'[j] = forms[j]]_vars

\* one URL failed after its body and forms were stored, another before
C14_Witness ==
    /\ \E k \in Keys(errors) :
          errors[k] = "Exception" /\ k \in Keys(pages) /\ k \in Keys(forms)
    /\ \E k \in Keys(errors) :
          errors[k] = "Exception" /\ k \notin Keys(pages)
    /\ pc = "done"

\* C16: an iteration whose dequeued URL is already in visited or is
\* cross-domain fetches nothing, sleeps not, and leaves visited, pages and
\* forms unchanged; only the queue loses its head.  So no cross-domain URL
\* is ever in visited and |visited| counts fetched URLs only
C16_SkipFrame ==
    /\ [][(queue # <<>> /\ pc' = "loop"
           /\ (rstrip(Head(queue)) \in visited
               \/ CrossDomain(rstrip(Head(queue)))))
            => (/\ queue' = Tail(queue)
                /\ visited' = visited
                /\ pages' = pages
                /\ forms' = forms
                /\ fetchLog' = fetchLog
                /\ errors' = errors
                /\ delays' = delays)]_vars
    /\ [](/\ \A k \in visited : ~CrossDomain(k)
          /\ visited = Range(fetchLog))

\* a cross-domain link and a self-link were both dequeued and discarded
C16_Witness ==
    /\ pc = "loop"
    /\ fetchLog = <<base>>
    /\ visited = {base}
    /\ base \in extracted
    /\ queue = <<>>
    /\ \E l \in extracted : CrossDomain(l)
    /\ max_pages >= 2

\* C17: the elements of the queue are pairwise distinct; an iteration
\* removes the head and appends, after the rest, only URLs that are
\* non-empty normalized links, not in visited and not already in the queue
C17_QueueDistinct ==
    /\ [](\A i, j \in 1..Len(queue) : queue[i] = queue[j] => i = j)
    /\ [][(queue # <<>> /\ pc' = "loop") =>
            /\ Len(queue') >= Len(queue) - 1
            /\ SubSeq(queue', 1, Len(queue) - 1) = Tail(queue)
            /\ \A i \in Len(queue)..Len(queue') :
                  /\ queue'[i] # <<>>
                  /\ queue'[i] = normalize(queue'[i])
                  /\ queue'[i] \in extracted'
                  /\ queue'[i] \notin visited
                  /\ queue'[i] \notin Range(Tail(queue))]_vars

\* a second page was processed while links of the first were still queued
C17_Witness ==
    /\ pc = "loop"
    /\ Len(fetchLog) >= 2
    /\ errors = EmptyDict
    /\ Len(queue) >= 3
    /\ base \in Range(queue)

\* C19: time.sleep is called once for every processed URL, whether its
\* processing succeeded or failed, and not for a discarded URL: the number
\* of delays taken equals |visited| and the number of fetches
C19_DelayPerVisit ==
    /\ [](delays = Cardinality(visited) /\ delays = Len(fetchLog))
    /\ [][(visited' # visited \/ fetchLog' # fetchLog \/ errors' # errors)
            <=> delays' = delays + 1]_vars
    /\ [][delays' = delays \/ delays' = delays + 1]_vars

C19_Witness ==
    /\ pc = "done"
    /\ delays = 3
    /\ Keys(errors) # {}
    /\ \E l \in extracted : CrossDomain(l) /\ l \notin Range(queue)

\* C20: keys(forms) is a subset of keys(pages), keys(pages) a subset of
\* visited; no forms entry is an empty list; a URL with a forms entry was
\* fetched and did not fail before or during form extraction
C20_Stores ==
    /\ Keys(forms) \subseteq Keys(pages)
    /\ Keys(pages) \subseteq visited
    /\ \A k \in Keys(forms) : forms[k] # <<>>
    /\ \A k \in Keys(forms) : k \in Range(fetchLog)
    /\ \A k \in Keys(pages) : pages[k].url = k

C20_Witness ==
    /\ pc = "done"
    /\ Keys(forms) # {}
    /\ Keys(pages) \ Keys(forms) # {}
    /\ visited \ Keys(pages) # {}

\* position of the first call that put url into the queue (0 if none)
FirstAppend(url) ==
    IF \E k \in 1..Len(appended) : rstrip(appended[k]) = url
    THEN Min({k \in 1..Len(appended) : rstrip(appended[k]) = url})
    ELSE 0

\* C18 as stated: whenever some append of x precedes some append of y and
\* both were processed, x was processed before y
C18_AnyAppendAsStated ==
    \A p, q \in 1..Len(appended) : \A i, j \in 1..Len(fetchLog) :
        (/\ p < q
         /\ appended[p] # appended[q]
         /\ rstrip(appended[p]) = fetchLog[i]
         /\ rstrip(appended[q]) = fetchLog[j]) => i < j

\* C18: the queue is first-in first-out.  It is always the tail end of the
\* log of appends; an iteration removes its head and puts the new links
\* after the rest; and URLs are processed in the order of their first
\* append (a URL may be appended again while it is being processed)
C18_Fifo ==
    /\ [](/\ Len(queue) <= Len(appended)
          /\ queue = SubSeq(appended, Len(appended) - Len(queue) + 1,
                            Len(appended)))
    /\ [][(queue # <<>> /\ pc' = "loop") =>
            queue' = Tail(queue) \o
                     SubSeq(appended', Len(appended) + 1, Len(appended'))]_vars
    /\ [](\A i, j \in 1..Len(fetchLog) :
            /\ FirstAppend(fetchLog[i]) > 0
            /\ i < j => FirstAppend(fetchLog[i]) < FirstAppend(fetchLog[j]))

\* three pages were processed in append order, two of them queued together
C18_Witness ==
    /\ Len(fetchLog) = 3
    /\ Len(appended) >= 4
    /\ appended[2] = fetchLog[2]
    /\ appended[3] = fetchLog[3]
    /\ \E k \in 4..Len(appended) : appended[k] = fetchLog[2]

Restrict(d, S) == [k \in DOMAIN d \cap S |-> d[k]]

\* C15 as stated: the variant returns the same pages and forms
C15_SameResultAsStated ==
    (pc = "done" /\ vpc = "done") => (vpages = pages /\ vforms = forms)

\* C15: marking discarded URLs visited preserves the order of fetches but
\* not the result.  The variant fetches a prefix of what the code fetches
\* and is never about to fetch anything else; the code spends its budget on
\* fetched URLs only, the variant also on discarded cross-domain URLs; at
\* return the variant's pages and forms are the code's, restricted to the
\* URLs the variant fetched, and equal to them if the variant marked no
\* cross-domain URL
C15_VariantPrefix ==
    /\ Len(vfetchLog) <= Len(fetchLog)
    /\ vfetchLog = SubSeq(fetchLog, 1, Len(vfetchLog))
    /\ AtFetch(vqueue, vvisited, vpc) =>
          /\ pc = "loop"
          /\ AtFetch(queue, visited, pc) =>
                rstrip(Head(queue)) = rstrip(Head(vqueue))
    /\ visited = Range(fetchLog)
    /\ Range(vfetchLog) \subseteq vvisited
    /\ \A k \in vvisited \ Range(vfetchLog) : CrossDomain(k)
    /\ (pc = "done" /\ vpc = "done") =>
          /\ vpages = Restrict(pages, Range(vfetchLog))
          /\ vforms = Restrict(forms, Range(vfetchLog))
          /\ (vvisited = Range(vfetchLog)) => (vpages = pages /\ vforms = forms)

\* both crawls returned; the variant spent budget on a cross-domain URL
\* and returned without a page and a form that the code's crawl returns
C15_Witness ==
    /\ pc = "done"
    /\ vpc = "done"
    /\ \E k \in vvisited : CrossDomain(k)
    /\ Keys(pages) \ Keys(vpages) # {}
    /\ Keys(forms) \ Keys(vforms) # {}

====
